---------------------------- MODULE Spec2Model ----------------------------
(***************************************************************************)
(* Parallel persistence layer of the Merkle tree storage                   *)
(* (core/lib/merkle_tree/src/storage/parallel.rs): ParallelDatabase and    *)
(* MaybeParallel.  A producer thread calls the Database / PruneDatabase    *)
(* methods of the adapter; a persister thread receives commands from a     *)
(* bounded channel and applies them to the underlying store.               *)
(***************************************************************************)
EXTENDS Naturals, Sequences, FiniteSets

(***************************************************************************)
(* Bounds of the model.                                                    *)
(***************************************************************************)
\* Number of apply_patch calls of a run.
MaxPatches == 3
\* Largest buffer_capacity handed to parallelize.
MaxCapacity == 2
\* Longest key list handed to tree_nodes.
MaxKeys == 2

(***************************************************************************)
(* Values.                                                                 *)
(***************************************************************************)
\* tests::UPDATED_VERSION, the version the adapter is parallelized for.
UPDATED_VERSION == 10
\* An older tree version already present in the store.
OldVersion == UPDATED_VERSION - 3
Versions == {OldVersion, UPDATED_VERSION}

\* Option::None of a manifest, root or node; an Option<u64> is a sequence of
\* at most one number.
None == "none"
\* The Err(DeserializeError) a store read may return.
DeserializeError == "deserialize_error"
\* A stored value that fails to deserialize.
Corrupt == "corrupt"

Manifests == {"m1", "m2"}
Roots == {"r1", "r2"}
\* Node::Leaf with leaf_index 1 and 2.  Every node is a leaf and every read
\* passes is_leaf = true, so the debug assertions on the hint hold.
Nodes == {"leaf1", "leaf2"}

\* NodeKey: Nibbles::with_version.
NodeKey(v, n) == [version |-> v, nibbles |-> n]
K1 == NodeKey(UPDATED_VERSION, "a")
K2 == NodeKey(UPDATED_VERSION, "b")
KOld == NodeKey(OldVersion, "a")
Keys == {K1, K2, KOld}

\* HashMap<NodeKey, Node>; a key that is absent maps to None.
NoNodes == [k \in Keys |-> None]
NodeMap(k, n) == [NoNodes EXCEPT ![k] = n]

\* PartialPatchSet::empty().
EmptyPartialPatchSet == [root |-> None, nodes |-> NoNodes]

\* A PatchSet that updates `version`: PatchSet::new.
UpdatePatchSet(manifest, version, root, nodes, stale) ==
    [manifest |-> manifest,
     updated_version |-> <<version>>,
     patches_by_version |-> [v \in {version} |-> [root |-> root, nodes |-> nodes]],
     stale_keys_by_version |-> IF stale = <<>> THEN <<>> ELSE [v \in {version} |-> stale]]

\* PatchSet::from_manifest.
ManifestPatchSet(manifest) ==
    [manifest |-> manifest,
     updated_version |-> <<>>,
     patches_by_version |-> <<>>,
     stale_keys_by_version |-> <<>>]

\* A patch whose node map holds the key K1 alone.
PatchOne == UpdatePatchSet("m1", UPDATED_VERSION, "r1", NodeMap(K1, "leaf1"), <<>>)

\* A patch that overwrites K1, adds K2 and carries a stale key.
PatchTwo ==
    UpdatePatchSet("m2", UPDATED_VERSION, "r2",
                   [NodeMap(K1, "leaf2") EXCEPT ![K2] = "leaf1"], <<KOld>>)

\* A patch like PatchTwo whose node map names a key of the old version.
PatchForeign ==
    UpdatePatchSet("m2", UPDATED_VERSION, "r2",
                   [NodeMap(K1, "leaf2") EXCEPT ![KOld] = "leaf2"], <<KOld>>)

\* The patches a caller that honours the adapter's assumptions submits: they
\* pass the assertions of apply_patch and every node key carries the updated
\* version.
ValidPatches == {ManifestPatchSet("m1"), PatchOne, PatchTwo}

\* Patches apply_patch accepts, one of them with a key of another version in
\* its node map.
AcceptedPatches == {ManifestPatchSet("m1"), PatchOne, PatchForeign}

\* PatchSet::from_manifest with stale keys of the updated version added.
ManifestStalePatch ==
    [ManifestPatchSet("m1") EXCEPT
        !.stale_keys_by_version = [v \in {UPDATED_VERSION} |-> <<KOld>>]]

\* Patches that break an assertion of apply_patch: an update of another
\* version; two entries in patches_by_version; a single entry under another
\* version; a manifest update with a partial patch; stale keys of another
\* version, alone and next to those of the updated version.
RejectedPatches ==
    { UpdatePatchSet("m2", OldVersion, "r1", NodeMap(KOld, "leaf2"), <<>>),
      [PatchOne EXCEPT
          !.patches_by_version = [v \in Versions |-> PatchOne.patches_by_version[UPDATED_VERSION]]],
      [PatchOne EXCEPT
          !.patches_by_version = [v \in {OldVersion} |-> PatchOne.patches_by_version[UPDATED_VERSION]]],
      [ManifestPatchSet("m2") EXCEPT
          !.patches_by_version = PatchOne.patches_by_version],
      [PatchOne EXCEPT !.stale_keys_by_version = [v \in {OldVersion} |-> <<KOld>>]],
      [PatchOne EXCEPT !.stale_keys_by_version = [v \in Versions |-> <<KOld>>]] }

\* The patches submitted in the runs in which calls may panic: accepted ones,
\* among them a manifest update that carries stale keys, and rejected ones.
AnyPatches == {PatchOne, ManifestStalePatch} \cup RejectedPatches

\* The patch submitted before the adapter is parallelized: it updates the old
\* version.
SequentialPatches ==
    {UpdatePatchSet("m2", OldVersion, "r1", NodeMap(KOld, "leaf2"), <<>>)}

\* PrunePatchSet: the node keys to remove and the versions whose stale keys
\* are deleted.
PrunePatchSets ==
    { [pruned_node_keys |-> {KOld}, deleted_stale_key_versions |-> {UPDATED_VERSION}] }

(***************************************************************************)
(* The underlying store (the DB type parameter).                           *)
(***************************************************************************)
EmptyStore ==
    [manifest |-> None,
     roots |-> [v \in Versions |-> None],
     nodes |-> NoNodes,
     stale |-> [v \in Versions |-> <<>>]]

\* A store that holds the old version, with a root that does not deserialize.
CorruptStore ==
    [EmptyStore EXCEPT !.manifest = "m1",
                       !.roots[OldVersion] = Corrupt,
                       !.nodes[KOld] = "leaf1",
                       !.stale[OldVersion] = <<KOld>>]

InitStores == {EmptyStore, CorruptStore}

StoreTryManifest(s) == s.manifest

StoreTryRoot(s, version) ==
    IF s.roots[version] = Corrupt THEN DeserializeError ELSE s.roots[version]

StoreTryTreeNode(s, key) == s.nodes[key]

StoreTreeNodes(s, keys) == [i \in DOMAIN keys |-> s.nodes[keys[i]]]

StoreStaleKeys(s, version) == s.stale[version]

StoreMinStaleKeyVersion(s) ==
    LET vs == {v \in Versions : s.stale[v] # <<>>}
    IN  IF vs = {} THEN <<>> ELSE <<CHOOSE v \in vs : \A w \in vs : v <= w>>

\* Database::apply_patch of the store: atomic.
StoreApplyPatch(s, patch) ==
    LET vs == DOMAIN patch.patches_by_version
        ss == DOMAIN patch.stale_keys_by_version
        newNode(k) ==
            IF \E v \in vs : patch.patches_by_version[v].nodes[k] # None
            THEN LET v == CHOOSE v \in vs : patch.patches_by_version[v].nodes[k] # None
                 IN  patch.patches_by_version[v].nodes[k]
            ELSE s.nodes[k]
    IN  [manifest |-> patch.manifest,
         roots |-> [v \in Versions |->
                      IF v \in vs /\ patch.patches_by_version[v].root # None
                      THEN patch.patches_by_version[v].root
                      ELSE s.roots[v]],
         nodes |-> [k \in Keys |-> newNode(k)],
         stale |-> [v \in Versions |->
                      IF v \in ss
                      THEN s.stale[v] \o patch.stale_keys_by_version[v]
                      ELSE s.stale[v]]]

\* PruneDatabase::prune of the store.
StorePrune(s, patch) ==
    [s EXCEPT !.nodes = [k \in Keys |->
                           IF k \in patch.pruned_node_keys THEN None ELSE s.nodes[k]],
              !.stale = [v \in Versions |->
                           IF v \in patch.deleted_stale_key_versions
                           THEN <<>> ELSE s.stale[v]]]

(***************************************************************************)
(* State.                                                                  *)
(***************************************************************************)
VARIABLES
    mode,               \* tag of MaybeParallel: "Sequential", "Parallel", "Joined"
    inner,              \* the store behind ParallelDatabase::inner and its clone
    updated_version,    \* ParallelDatabase::updated_version
    capacity,           \* buffer_capacity of the sync_channel
    queue,              \* commands in the channel (strong references), oldest first
    sender_alive,       \* command_sender has not been dropped
    heap,               \* the PersistenceCommand every Arc ever created points to
    commands,           \* ParallelDatabase::commands: weak references, oldest first
    persister,          \* position of run_persistence and what it holds
    pc,                 \* position of the producer thread
    op,                 \* the call the producer is in, with its locals
    rd,                 \* the call that has just returned, with its result
    seq,                \* the store of MaybeParallel::Sequential run on the same script
    calls,              \* number of apply_patch calls made so far
    persisted,          \* ids of the commands handed to the store, in order
    released,           \* ids of the commands whose Arc the persister dropped, in order
    prune_calls,        \* patch of the latest prune call made on the adapter
    store_prunes        \* patches of the store's prune calls this call has made

vars == <<mode, inner, updated_version, capacity, queue, sender_alive, heap, commands,
          persister, pc, op, rd, seq, calls, persisted, released, prune_calls, store_prunes>>


NoCommand == [manifest |-> None, patch |-> EmptyPartialPatchSet, stale_keys |-> <<>>]
NoOp == [name |-> "none"]
NoRead == [name |-> "none"]
IdlePersister == [state |-> "recv", arc |-> 0, command |-> NoCommand]

\* The call `name` with argument `arg` has returned `res`.
Returned(name, arg, res) == [name |-> name, arg |-> arg, res |-> res]

\* The call `name` has panicked; `arg` is its argument.
Panicked(name, arg) == [name |-> "panic", arg |-> [call |-> name, patch |-> arg], res |-> None]

Range(s) == {s[i] : i \in DOMAIN s}

\* Weak::strong_count: the Arcs of command `id` in the channel, in the
\* persister's loop body and in apply_patch before the send.
StrongCount(id) ==
    Cardinality({i \in DOMAIN queue : queue[i] = id})
    + (IF persister.arc = id THEN 1 ELSE 0)
    + (IF pc = "apply_patch_send" /\ op.id = id THEN 1 ELSE 0)

\* Weak::upgrade succeeds.
Upgradable(id) == StrongCount(id) > 0

\* A retain with the predicate inverted: the entries that upgrade are dropped.
RetainDead(cs) == SelectSeq(cs, LAMBDA id : ~Upgradable(id))

\* A retain whose predicate holds of every entry.
RetainKeepsAll(cs) == cs

\* commands.retain(|command| Weak::strong_count(command) > 0)
Retain(cs) == SelectSeq(cs, Upgradable)

Init ==
    /\ mode = "Sequential"
    /\ inner \in InitStores
    /\ updated_version = 0
    /\ capacity = 0
    /\ queue = <<>>
    /\ sender_alive = FALSE
    /\ heap = <<>>
    /\ commands = <<>>
    /\ persister = [IdlePersister EXCEPT !.state = "none"]
    /\ pc = "idle"
    /\ op = NoOp
    /\ rd = NoRead
    /\ seq = inner
    /\ calls = 0
    /\ persisted = <<>>
    /\ released = <<>>
    /\ prune_calls = <<>>
    /\ store_prunes = <<>>

(***************************************************************************)
(* The persister thread: ParallelDatabase::run_persistence.                *)
(***************************************************************************)
\* A PatchSet reconstituted without the stale keys of the command.
ReconstitutedWithoutStaleKeys(command) ==
    [manifest |-> command.manifest,
     updated_version |-> <<updated_version>>,
     patches_by_version |-> [v \in {updated_version} |-> command.patch],
     stale_keys_by_version |-> <<>>]

\* The PatchSet run_persistence reconstitutes from a command.
ReconstitutedPatchSet(command) ==
    [manifest |-> command.manifest,
     updated_version |-> <<updated_version>>,
     patches_by_version |-> [v \in {updated_version} |-> command.patch],
     stale_keys_by_version |-> [v \in {updated_version} |-> command.stale_keys]]

\* A recv that hands out the newest command of the channel.
ChannelRecvNewest(q) == [command |-> q[Len(q)], rest |-> SubSeq(q, 1, Len(q) - 1)]

\* command_receiver.recv() on a channel that holds `q`: the oldest command.
ChannelRecv(q) == [command |-> Head(q), rest |-> Tail(q)]

\* A loop body that drops the Arc as soon as it has cloned the command.
ReceivedArcDropped(id) == [state |-> "apply", arc |-> 0, command |-> heap[id]]

\* The loop body's bindings once recv has returned the Arc `id`: the Arc lives
\* until the end of the iteration, next to the clone of the command.
Received(id) == [state |-> "apply", arc |-> id, command |-> heap[id]]

\* `while let Ok(command) = command_receiver.recv()` with a command waiting.
PersisterRecv ==
    /\ persister.state = "recv"
    /\ queue # <<>>
    /\ persister' = Received(ChannelRecv(queue).command)
    /\ queue' = ChannelRecv(queue).rest
    /\ rd' = NoRead
    /\ UNCHANGED <<mode, inner, updated_version, capacity, sender_alive, heap, commands,
                   pc, op, seq, calls, persisted, released, prune_calls, store_prunes>>

\* database.apply_patch(patch) on the store.
PersisterApply ==
    /\ persister.state = "apply"
    /\ inner' = StoreApplyPatch(inner, ReconstitutedPatchSet(persister.command))
    /\ persisted' = Append(persisted, persister.arc)
    /\ persister' = [persister EXCEPT !.state = "release"]
    /\ rd' = NoRead
    /\ UNCHANGED <<mode, updated_version, capacity, queue, sender_alive, heap, commands,
                   pc, op, seq, calls, released, prune_calls, store_prunes>>

\* End of the loop body: the Arc is dropped, which frees the command.
PersisterRelease ==
    /\ persister.state = "release"
    /\ released' = Append(released, persister.arc)
    /\ heap' = [i \in DOMAIN heap |-> IF i = persister.arc THEN NoCommand ELSE heap[i]]
    /\ persister' = IdlePersister
    /\ rd' = NoRead
    /\ UNCHANGED <<mode, inner, updated_version, capacity, queue, sender_alive, commands,
                   pc, op, seq, calls, persisted, prune_calls, store_prunes>>

\* A loop that ends as soon as the sender is dropped, commands left behind.
PersisterExitUndrained ==
    /\ persister.state = "recv"
    /\ ~sender_alive
    /\ persister' = [persister EXCEPT !.state = "exited"]
    /\ rd' = NoRead
    /\ UNCHANGED <<mode, inner, updated_version, capacity, queue, sender_alive, heap,
                   commands, pc, op, seq, calls, persisted, released, prune_calls,
                   store_prunes>>

\* A recv that goes on waiting on a channel that is closed and empty.
PersisterWaitsOnClosed ==
    /\ persister.state = "recv"
    /\ queue = <<>>
    /\ ~sender_alive
    /\ rd' = NoRead
    /\ UNCHANGED <<mode, inner, updated_version, capacity, queue, sender_alive, heap,
                   commands, persister, pc, op, seq, calls, persisted, released,
                   prune_calls, store_prunes>>

\* A loop that ends as soon as the channel is empty, the sender still alive.
PersisterExitOnEmpty ==
    /\ persister.state = "recv"
    /\ queue = <<>>
    /\ persister' = [persister EXCEPT !.state = "exited"]
    /\ rd' = NoRead
    /\ UNCHANGED <<mode, inner, updated_version, capacity, queue, sender_alive, heap,
                   commands, pc, op, seq, calls, persisted, released, prune_calls,
                   store_prunes>>

\* recv() returns Err once the sender is dropped and the channel is empty: the
\* loop ends and the thread exits.
PersisterExit ==
    /\ persister.state = "recv"
    /\ queue = <<>>
    /\ ~sender_alive
    /\ persister' = [persister EXCEPT !.state = "exited"]
    /\ rd' = NoRead
    /\ UNCHANGED <<mode, inner, updated_version, capacity, queue, sender_alive, heap,
                   commands, pc, op, seq, calls, persisted, released, prune_calls,
                   store_prunes>>

\* database.apply_patch(patch) panics in the store, which applies nothing of
\* the patch.  The unwinding of the loop body drops the clone of the command
\* and the Arc; the receiver, a parameter of run_persistence, is still alive.
PersisterPanic ==
    /\ persister.state = "apply"
    /\ heap' = [i \in DOMAIN heap |-> IF i = persister.arc THEN NoCommand ELSE heap[i]]
    /\ persister' = [IdlePersister EXCEPT !.state = "unwinding"]
    /\ rd' = NoRead
    /\ UNCHANGED <<mode, inner, updated_version, capacity, queue, sender_alive, commands,
                   pc, op, seq, calls, persisted, released, prune_calls, store_prunes>>

\* The unwinding drops command_receiver, which discards the commands still in
\* the channel, and the thread finishes with the panic as its result.
PersisterUnwound ==
    /\ persister.state = "unwinding"
    /\ heap' = [i \in DOMAIN heap |-> IF i \in Range(queue) THEN NoCommand ELSE heap[i]]
    /\ queue' = <<>>
    /\ persister' = [IdlePersister EXCEPT !.state = "panicked"]
    /\ rd' = NoRead
    /\ UNCHANGED <<mode, inner, updated_version, capacity, sender_alive, commands,
                   pc, op, seq, calls, persisted, released, prune_calls, store_prunes>>

(***************************************************************************)
(* MaybeParallel::parallelize and ParallelDatabase::new.                   *)
(***************************************************************************)
\* A parallelize that builds a new adapter whatever the value is.
ParallelizeAlways(version, buffer_capacity) ==
    /\ pc = "idle"
    /\ mode \in {"Sequential", "Parallel"}
    /\ mode' = "Parallel"
    /\ updated_version' = version
    /\ capacity' = buffer_capacity
    /\ sender_alive' = TRUE
    /\ persister' = IdlePersister
    /\ rd' = NoRead
    /\ UNCHANGED <<inner, queue, heap, commands, pc, op, seq, calls, persisted, released,
                   prune_calls, store_prunes>>

Parallelize(version, buffer_capacity) ==
    /\ pc = "idle"
    /\ mode \in {"Sequential", "Parallel"}
    /\ IF mode = "Sequential"
       THEN /\ mode' = "Parallel"
            /\ updated_version' = version
            /\ capacity' = buffer_capacity
            /\ sender_alive' = TRUE
            /\ persister' = IdlePersister
       ELSE UNCHANGED <<mode, updated_version, capacity, sender_alive, persister>>
    /\ rd' = NoRead
    /\ UNCHANGED <<inner, queue, heap, commands, pc, op, seq, calls, persisted, released,
                   prune_calls, store_prunes>>

(***************************************************************************)
(* Database::apply_patch.                                                  *)
(***************************************************************************)
\* The assertions without the one on stale_keys_by_version.
PatchAcceptedAnyStaleKeys(patch) ==
    IF patch.updated_version # <<>>
    THEN /\ patch.updated_version[1] = updated_version
         /\ Cardinality(DOMAIN patch.patches_by_version) = 1
         /\ updated_version \in DOMAIN patch.patches_by_version
    ELSE DOMAIN patch.patches_by_version = {}

\* The assertions of ParallelDatabase::apply_patch.
PatchAccepted(patch) ==
    /\ IF patch.updated_version # <<>>
       THEN /\ patch.updated_version[1] = updated_version
            /\ Cardinality(DOMAIN patch.patches_by_version) = 1
            /\ updated_version \in DOMAIN patch.patches_by_version
       ELSE DOMAIN patch.patches_by_version = {}
    /\ \/ DOMAIN patch.stale_keys_by_version = {}
       \/ DOMAIN patch.stale_keys_by_version = {updated_version}

\* A command that takes the empty partial patch in both branches.
CommandOfWithoutPatch(patch) ==
    [manifest |-> patch.manifest,
     patch |-> EmptyPartialPatchSet,
     stale_keys |-> IF updated_version \in DOMAIN patch.stale_keys_by_version
                    THEN patch.stale_keys_by_version[updated_version]
                    ELSE <<>>]

\* The PersistenceCommand apply_patch builds from an accepted patch.
CommandOf(patch) ==
    [manifest |-> patch.manifest,
     patch |-> IF patch.updated_version # <<>>
               THEN patch.patches_by_version[updated_version]
               ELSE EmptyPartialPatchSet,
     stale_keys |-> IF updated_version \in DOMAIN patch.stale_keys_by_version
                    THEN patch.stale_keys_by_version[updated_version]
                    ELSE <<>>]

\* The weak mirror after the garbage collection of apply_patch, which is in
\* the branch of a patch that carries an updated version.
CollectedCommands(patch) ==
    IF patch.updated_version # <<>> THEN Retain(commands) ELSE commands

\* A send whose error is never seen.
SendNeverFails == FALSE

\* The receiver of the channel is gone: run_persistence has returned or has
\* unwound.
ReceiverDropped == persister.state \in {"exited", "panicked"}

\* apply_patch up to the creation of the Arc.
ApplyPatchBegin(patch) ==
    /\ pc = "idle"
    /\ mode = "Parallel"
    /\ calls < MaxPatches
    /\ PatchAccepted(patch)
    /\ commands' = CollectedCommands(patch)
    /\ heap' = Append(heap, CommandOf(patch))
    /\ calls' = calls + 1
    /\ pc' = "apply_patch_send"
    /\ op' = [name |-> "apply_patch", id |-> Len(heap) + 1, patch |-> patch]
    /\ rd' = NoRead
    /\ UNCHANGED <<mode, inner, updated_version, capacity, queue, sender_alive, persister,
                   seq, persisted, released, prune_calls, store_prunes>>

\* A send into a channel without a bound.
ApplyPatchSendUnbounded ==
    /\ pc = "apply_patch_send"
    /\ ~ReceiverDropped
    /\ queue' = Append(queue, op.id)
    /\ pc' = "apply_patch_push"
    /\ rd' = NoRead
    /\ UNCHANGED <<mode, inner, updated_version, capacity, sender_alive, heap, commands,
                   persister, op, seq, calls, persisted, released, prune_calls,
                   store_prunes>>

\* A send into a channel that buffers one command more than buffer_capacity.
ApplyPatchSendOneMore ==
    /\ pc = "apply_patch_send"
    /\ ~ReceiverDropped
    /\ Len(queue) <= capacity
    /\ queue' = Append(queue, op.id)
    /\ pc' = "apply_patch_push"
    /\ rd' = NoRead
    /\ UNCHANGED <<mode, inner, updated_version, capacity, sender_alive, heap, commands,
                   persister, op, seq, calls, persisted, released, prune_calls,
                   store_prunes>>

\* command_sender.send(command): blocks while the channel holds
\* buffer_capacity commands.
ApplyPatchSend ==
    /\ pc = "apply_patch_send"
    /\ ~ReceiverDropped
    /\ Len(queue) < capacity
    /\ queue' = Append(queue, op.id)
    /\ pc' = "apply_patch_push"
    /\ rd' = NoRead
    /\ UNCHANGED <<mode, inner, updated_version, capacity, sender_alive, heap, commands,
                   persister, op, seq, calls, persisted, released, prune_calls,
                   store_prunes>>

\* An apply_patch that also writes the patch to the producer's store handle.
ApplyPatchPushWriteThrough ==
    /\ pc = "apply_patch_push"
    /\ commands' = Append(commands, op.id)
    /\ inner' = StoreApplyPatch(inner, op.patch)
    /\ seq' = StoreApplyPatch(seq, op.patch)
    /\ pc' = "idle"
    /\ op' = NoOp
    /\ rd' = NoRead
    /\ UNCHANGED <<mode, updated_version, capacity, queue, sender_alive, heap,
                   persister, calls, persisted, released, prune_calls, store_prunes>>

\* self.commands.push_back(weak_command), and the call returns.
ApplyPatchPush ==
    /\ pc = "apply_patch_push"
    /\ commands' = Append(commands, op.id)
    /\ seq' = StoreApplyPatch(seq, op.patch)
    /\ pc' = "idle"
    /\ op' = NoOp
    /\ rd' = NoRead
    /\ UNCHANGED <<mode, inner, updated_version, capacity, queue, sender_alive, heap,
                   persister, calls, persisted, released, prune_calls, store_prunes>>

\* MaybeParallel::apply_patch on Sequential(db).
SequentialApplyPatch(patch) ==
    /\ pc = "idle"
    /\ mode = "Sequential"
    /\ calls < MaxPatches
    /\ inner' = StoreApplyPatch(inner, patch)
    /\ seq' = StoreApplyPatch(seq, patch)
    /\ calls' = calls + 1
    /\ rd' = NoRead
    /\ UNCHANGED <<mode, updated_version, capacity, queue, sender_alive, heap, commands,
                   persister, pc, op, persisted, released, prune_calls, store_prunes>>

(***************************************************************************)
(* wait_sync, prune and join.                                              *)
(***************************************************************************)
\* A wait_sync that does not wait.
WaitSyncNeverWaits == FALSE

\* A loop condition that looks at the channel instead of the weak mirror.
WaitSyncWaitsForChannel == queue # <<>>

\* The loop condition of wait_sync.
WaitSyncMustWait == commands # <<>>

\* persistence_handle.is_finished(): the thread has returned or has finished
\* unwinding.
IsFinished == persister.state \in {"exited", "panicked"}

\* MaybeParallel::wait_sync on Parallel(db): entry of ParallelDatabase::wait_sync.
WaitSync ==
    /\ pc = "idle"
    /\ mode = "Parallel"
    /\ pc' = "wait_sync"
    /\ op' = [name |-> "wait_sync"]
    /\ rd' = NoRead
    /\ UNCHANGED <<mode, inner, updated_version, capacity, queue, sender_alive, heap,
                   commands, persister, seq, calls, persisted, released, prune_calls,
                   store_prunes>>

\* One iteration of the loop of wait_sync: retain, then sleep.
WaitSyncLoop ==
    /\ pc = "wait_sync"
    /\ WaitSyncMustWait
    /\ commands' = Retain(commands)
    /\ rd' = NoRead
    /\ UNCHANGED <<mode, inner, updated_version, capacity, queue, sender_alive, heap,
                   persister, pc, op, seq, calls, persisted, released, prune_calls,
                   store_prunes>>

\* The loop of wait_sync ends; the persister has not finished, so wait_sync
\* returns, into prune when prune called it.
WaitSyncReturn ==
    /\ pc = "wait_sync"
    /\ ~WaitSyncMustWait
    /\ ~IsFinished
    /\ IF op.name = "prune"
       THEN pc' = "prune_inner" /\ op' = op /\ rd' = NoRead
       ELSE pc' = "returned" /\ op' = NoOp /\ rd' = Returned("wait_sync", None, None)
    /\ UNCHANGED <<mode, inner, updated_version, capacity, queue, sender_alive, heap,
                   commands, persister, seq, calls, persisted, released, prune_calls,
                   store_prunes>>

\* PruneDatabase::prune of ParallelDatabase: entry, which calls wait_sync.
Prune(patch) ==
    /\ pc = "idle"
    /\ mode = "Parallel"
    /\ prune_calls' = <<patch>>
    /\ store_prunes' = <<>>
    /\ pc' = "wait_sync"
    /\ op' = [name |-> "prune", patch |-> patch]
    /\ rd' = NoRead
    /\ UNCHANGED <<mode, inner, updated_version, capacity, queue, sender_alive, heap,
                   commands, persister, seq, calls, persisted, released>>

\* self.inner.prune(patch), and prune returns.
PruneInner ==
    /\ pc = "prune_inner"
    /\ inner' = StorePrune(inner, op.patch)
    /\ seq' = StorePrune(seq, op.patch)
    /\ store_prunes' = Append(store_prunes, op.patch)
    /\ pc' = "returned"
    /\ op' = NoOp
    /\ rd' = Returned("prune", op.patch, None)
    /\ UNCHANGED <<mode, updated_version, capacity, queue, sender_alive, heap, commands,
                   persister, calls, persisted, released, prune_calls>>

\* MaybeParallel::prune on Sequential(db).
SequentialPrune(patch) ==
    /\ pc = "idle"
    /\ mode = "Sequential"
    /\ prune_calls' = <<patch>>
    /\ inner' = StorePrune(inner, patch)
    /\ seq' = StorePrune(seq, patch)
    /\ store_prunes' = <<patch>>
    /\ rd' = NoRead
    /\ UNCHANGED <<mode, updated_version, capacity, queue, sender_alive, heap, commands,
                   persister, pc, op, calls, persisted, released>>

\* A join that does not wait for the thread.
PersisterJoinedAlways == TRUE

\* join_handle.join() returns: the persister thread has exited.
PersisterJoined == persister.state = "exited"

\* ParallelDatabase::join up to the wait for the thread: the handle is taken,
\* the sender and the weak mirror are dropped.
JoinBegin ==
    /\ pc = "idle"
    /\ mode = "Parallel"
    /\ sender_alive' = FALSE
    /\ commands' = <<>>
    /\ pc' = "join"
    /\ op' = [name |-> "join"]
    /\ rd' = NoRead
    /\ UNCHANGED <<mode, inner, updated_version, capacity, queue, heap, persister, seq,
                   calls, persisted, released, prune_calls, store_prunes>>

\* join returns self.inner.
JoinReturn ==
    /\ pc = "join"
    /\ PersisterJoined
    /\ mode' = "Joined"
    /\ pc' = "done"
    /\ op' = NoOp
    /\ rd' = NoRead
    /\ UNCHANGED <<inner, updated_version, capacity, queue, sender_alive, heap, commands,
                   persister, seq, calls, persisted, released, prune_calls, store_prunes>>

\* MaybeParallel::join on Sequential(db).
SequentialJoin ==
    /\ pc = "idle"
    /\ mode = "Sequential"
    /\ mode' = "Joined"
    /\ pc' = "done"
    /\ rd' = NoRead
    /\ UNCHANGED <<inner, updated_version, capacity, queue, sender_alive, heap, commands,
                   persister, op, seq, calls, persisted, released, prune_calls,
                   store_prunes>>


\* The owner drops the parallel adapter, between two calls or while a panic
\* of a call unwinds: the sender goes, which closes the channel with its
\* commands left to the receiver, the join handle goes, which detaches the
\* persister thread, and the weak mirror goes.
DropAdapter ==
    /\ pc \in {"idle", "panicked"}
    /\ mode = "Parallel"
    /\ mode' = "Dropped"
    /\ sender_alive' = FALSE
    /\ commands' = <<>>
    /\ pc' = "done"
    /\ op' = NoOp
    /\ rd' = NoRead
    /\ UNCHANGED <<inner, updated_version, capacity, queue, heap, persister, seq, calls,
                   persisted, released, prune_calls, store_prunes>>

\* MaybeParallel::wait_sync on Sequential(db): nothing to do.
SequentialWaitSync ==
    /\ pc = "idle"
    /\ mode = "Sequential"
    /\ rd' = NoRead
    /\ UNCHANGED <<mode, inner, updated_version, capacity, queue, sender_alive, heap,
                   commands, persister, pc, op, seq, calls, persisted, released,
                   prune_calls, store_prunes>>

(***************************************************************************)
(* The calls that panic.  A panic of the producer leaves the adapter as it *)
(* is at that point; a caller that catches the panic goes on using it.     *)
(* persistence_handle is None only after the join of a finished thread, so *)
(* both expect() of a call that reaches them panic alike.                  *)
(***************************************************************************)
\* The weak mirror when apply_patch panics on `patch`: the garbage collection
\* runs after the first two assertions and before the expect() and the
\* assertion on the stale keys.
CollectedBeforePanic(patch) ==
    IF /\ patch.updated_version # <<>>
       /\ patch.updated_version[1] = updated_version
       /\ Cardinality(DOMAIN patch.patches_by_version) = 1
    THEN Retain(commands)
    ELSE commands

\* apply_patch on a patch that fails an assertion: it panics before the Arc
\* is created.
ApplyPatchRejected(patch) ==
    /\ pc = "idle"
    /\ mode = "Parallel"
    /\ calls < MaxPatches
    /\ ~PatchAccepted(patch)
    /\ commands' = CollectedBeforePanic(patch)
    /\ calls' = calls + 1
    /\ pc' = "panicked"
    /\ rd' = Panicked("apply_patch", patch)
    /\ UNCHANGED <<mode, inner, updated_version, capacity, queue, sender_alive, heap,
                   persister, op, seq, persisted, released, prune_calls, store_prunes>>

\* command_sender.send(command) returns Err, at once or after blocking: the
\* command comes back in the error and is dropped, the persister is joined and
\* the expect() on its result panics.
ApplyPatchSendFails ==
    /\ pc = "apply_patch_send"
    /\ ReceiverDropped
    /\ heap' = [i \in DOMAIN heap |-> IF i = op.id THEN NoCommand ELSE heap[i]]
    /\ pc' = "panicked"
    /\ op' = NoOp
    /\ rd' = Panicked("apply_patch", op.patch)
    /\ UNCHANGED <<mode, inner, updated_version, capacity, queue, sender_alive, commands,
                   persister, seq, calls, persisted, released, prune_calls, store_prunes>>

\* The loop of wait_sync ends and the persister has finished: wait_sync joins
\* it and panics, in prune too.
WaitSyncPanics ==
    /\ pc = "wait_sync"
    /\ ~WaitSyncMustWait
    /\ IsFinished
    /\ pc' = "panicked"
    /\ op' = NoOp
    /\ rd' = Panicked(op.name, None)
    /\ UNCHANGED <<mode, inner, updated_version, capacity, queue, sender_alive, heap,
                   commands, persister, seq, calls, persisted, released, prune_calls,
                   store_prunes>>

\* join_handle.join() returns the panic of the persister and the expect()
\* panics: the adapter is gone and no store is returned.
JoinPanics ==
    /\ pc = "join"
    /\ persister.state = "panicked"
    /\ mode' = "Dropped"
    /\ pc' = "done"
    /\ op' = NoOp
    /\ rd' = Panicked("join", None)
    /\ UNCHANGED <<inner, updated_version, capacity, queue, sender_alive, heap, commands,
                   persister, seq, calls, persisted, released, prune_calls, store_prunes>>

\* The caller has caught the panic and goes on.
PanicCaught ==
    /\ pc = "panicked"
    /\ pc' = "idle"
    /\ rd' = NoRead
    /\ UNCHANGED <<mode, inner, updated_version, capacity, queue, sender_alive, heap,
                   commands, persister, op, seq, calls, persisted, released, prune_calls,
                   store_prunes>>

(***************************************************************************)
(* The read path of ParallelDatabase.  A read scans the weak mirror and,   *)
(* when the mirror does not answer it, reads the store in a later step, so *)
(* that the persister may run in between.  The scan is one step: it        *)
(* upgrades the entries newest first while the persister releases them     *)
(* oldest first, so what it sees is what the mirror shows at one instant.  *)
(***************************************************************************)
\* The manifest of the oldest entry of the mirror (next() for next_back()).
OldestManifest ==
    IF commands # <<>> /\ Upgradable(commands[1])
    THEN heap[commands[1]].manifest
    ELSE None

\* self.commands.iter().next_back().and_then(Weak::upgrade), then its manifest.
LatestManifest ==
    IF commands # <<>> /\ Upgradable(commands[Len(commands)])
    THEN heap[commands[Len(commands)]].manifest
    ELSE None

\* commands.iter().rev().find_map(|command| command.upgrade()?.patch.root.clone())
\* over the entries 1..i of the mirror.
RECURSIVE FindRoot(_)
FindRoot(i) ==
    IF i = 0 THEN None
    ELSE IF Upgradable(commands[i]) /\ heap[commands[i]].patch.root # None
         THEN heap[commands[i]].patch.root
         ELSE FindRoot(i - 1)

\* The same search without rev(): the oldest command that has the key answers.
FindNodeOldestFirst(i, key) ==
    LET hits == {x \in 1..i : Upgradable(commands[x])
                              /\ heap[commands[x]].patch.nodes[key] # None}
    IN  IF hits = {} THEN None
        ELSE heap[commands[CHOOSE x \in hits : \A y \in hits : x <= y]].patch.nodes[key]

\* commands.iter().rev().find_map(|command| command.upgrade()?.patch.nodes.get(key).cloned())
\* over the entries 1..i of the mirror.
RECURSIVE FindNode(_, _)
FindNode(i, key) ==
    IF i = 0 THEN None
    ELSE IF Upgradable(commands[i]) /\ heap[commands[i]].patch.nodes[key] # None
         THEN heap[commands[i]].patch.nodes[key]
         ELSE FindNode(i - 1, key)

\* The loop of tree_nodes over the entries 1..i of the mirror, newest first:
\* a slot that is still empty takes the command's node for its key.
RECURSIVE ScanNodes(_, _, _)
ScanNodes(i, keys, nodes) ==
    IF i = 0 THEN nodes
    ELSE IF ~Upgradable(commands[i]) THEN ScanNodes(i - 1, keys, nodes)
         ELSE ScanNodes(i - 1, keys,
                        [x \in DOMAIN nodes |->
                           IF nodes[x] # None THEN nodes[x]
                           ELSE heap[commands[i]].patch.nodes[keys[x]]])

\* The indexes of the slots the scan left empty, in order.
RECURSIVE KeyIndexes(_, _)
KeyIndexes(nodes, i) ==
    IF i > Len(nodes) THEN <<>>
    ELSE (IF nodes[i] = None THEN <<i>> ELSE <<>>) \o KeyIndexes(nodes, i + 1)

\* The keys of those slots: the request sent to the store.
MissingKeys(keys, key_indexes) == [j \in DOMAIN key_indexes |-> keys[key_indexes[j]]]

\* A splice that writes the store's j-th answer to slot j.
SpliceCompact(nodes, key_indexes, inner_nodes) ==
    [x \in DOMAIN nodes |-> IF x \in DOMAIN inner_nodes THEN inner_nodes[x] ELSE nodes[x]]

\* for (key_idx, node) in key_indexes.into_iter().zip(inner_nodes) { nodes[key_idx] = node }
Splice(nodes, key_indexes, inner_nodes) ==
    [x \in DOMAIN nodes |->
       IF \E j \in DOMAIN key_indexes : j \in DOMAIN inner_nodes /\ key_indexes[j] = x
       THEN inner_nodes[CHOOSE j \in DOMAIN key_indexes : key_indexes[j] = x]
       ELSE nodes[x]]

\* The stale keys of the commands of the mirror that upgrade, oldest first.
RECURSIVE BufferedStaleKeys(_)
BufferedStaleKeys(i) ==
    IF i = 0 THEN <<>>
    ELSE BufferedStaleKeys(i - 1)
         \o (IF Upgradable(commands[i]) THEN heap[commands[i]].stale_keys ELSE <<>>)

\* commands.iter().any(|c| c.upgrade().map_or(false, |c| c.stale_keys.is_empty()))
CommandsHaveStaleKeys ==
    \E i \in DOMAIN commands :
        Upgradable(commands[i]) /\ heap[commands[i]].stale_keys = <<>>

\* The key lists handed to tree_nodes: the lists of at most MaxKeys keys that
\* name no key twice.
KeyLists ==
    UNION {{ks \in [1..n -> Keys] : \A i, j \in 1..n : ks[i] = ks[j] => i = j} :
           n \in 0..MaxKeys}

\* A read that garbage-collects the weak mirror before it returns.
ReadReturnsCollected(name, arg, res) ==
    /\ rd' = Returned(name, arg, res)
    /\ pc' = "returned"
    /\ op' = NoOp
    /\ commands' = Retain(commands)
    /\ UNCHANGED <<mode, inner, updated_version, capacity, queue, sender_alive, heap,
                   persister, seq, calls, persisted, released, prune_calls,
                   store_prunes>>

\* A read returns `res` to its caller.
ReadReturns(name, arg, res) ==
    /\ rd' = Returned(name, arg, res)
    /\ pc' = "returned"
    /\ op' = NoOp
    /\ UNCHANGED <<mode, inner, updated_version, capacity, queue, sender_alive, heap,
                   commands, persister, seq, calls, persisted, released, prune_calls,
                   store_prunes>>

\* A read goes on to read the store.
ReadContinues(at, locals) ==
    /\ rd' = NoRead
    /\ pc' = at
    /\ op' = locals
    /\ UNCHANGED <<mode, inner, updated_version, capacity, queue, sender_alive, heap,
                   commands, persister, seq, calls, persisted, released, prune_calls,
                   store_prunes>>

TryManifest ==
    /\ pc = "idle"
    /\ mode = "Parallel"
    /\ IF LatestManifest # None
       THEN ReadReturns("try_manifest", None, LatestManifest)
       ELSE ReadContinues("try_manifest_inner", [name |-> "try_manifest"])

\* self.inner.try_manifest()
TryManifestInner ==
    /\ pc = "try_manifest_inner"
    /\ ReadReturns("try_manifest", None, StoreTryManifest(inner))

TryRoot(version) ==
    /\ pc = "idle"
    /\ mode = "Parallel"
    /\ IF version # updated_version
       THEN ReadReturns("try_root", version, StoreTryRoot(inner, version))
       ELSE IF FindRoot(Len(commands)) # None
            THEN ReadReturns("try_root", version, FindRoot(Len(commands)))
            ELSE ReadContinues("try_root_inner", [name |-> "try_root", version |-> version])

\* self.inner.try_root(version) after the scan found no root.
TryRootInner ==
    /\ pc = "try_root_inner"
    /\ ReadReturns("try_root", op.version, StoreTryRoot(inner, op.version))

\* try_tree_node without the check of the key's version.
TryTreeNodeAnyVersion(key) ==
    /\ pc = "idle"
    /\ mode = "Parallel"
    /\ IF FindNode(Len(commands), key) # None
       THEN ReadReturns("try_tree_node", key, FindNode(Len(commands), key))
       ELSE ReadContinues("try_tree_node_inner", [name |-> "try_tree_node", key |-> key])

TryTreeNode(key) ==
    /\ pc = "idle"
    /\ mode = "Parallel"
    /\ IF key.version # updated_version
       THEN ReadReturns("try_tree_node", key, StoreTryTreeNode(inner, key))
       ELSE IF FindNode(Len(commands), key) # None
            THEN ReadReturns("try_tree_node", key, FindNode(Len(commands), key))
            ELSE ReadContinues("try_tree_node_inner",
                               [name |-> "try_tree_node", key |-> key])

\* self.inner.try_tree_node(key, is_leaf) after the scan found no node.
TryTreeNodeInner ==
    /\ pc = "try_tree_node_inner"
    /\ ReadReturns("try_tree_node", op.key, StoreTryTreeNode(inner, op.key))

TreeNodes(keys) ==
    /\ pc = "idle"
    /\ mode = "Parallel"
    /\ LET nodes == ScanNodes(Len(commands), keys, [x \in DOMAIN keys |-> None])
       IN  IF KeyIndexes(nodes, 1) = <<>>
           THEN ReadReturns("tree_nodes", keys, nodes)
           ELSE ReadContinues("tree_nodes_inner",
                              [name |-> "tree_nodes", keys |-> keys, nodes |-> nodes])

\* self.inner.tree_nodes(&missing_keys) and the splice of its answer.
TreeNodesInner ==
    /\ pc = "tree_nodes_inner"
    /\ LET key_indexes == KeyIndexes(op.nodes, 1)
           inner_nodes == StoreTreeNodes(inner, MissingKeys(op.keys, key_indexes))
       IN  ReadReturns("tree_nodes", op.keys, Splice(op.nodes, key_indexes, inner_nodes))

MinStaleKeyVersion ==
    /\ pc = "idle"
    /\ mode = "Parallel"
    /\ IF CommandsHaveStaleKeys
       THEN ReadReturns("min_stale_key_version", None, <<updated_version>>)
       ELSE ReadContinues("min_stale_key_version_inner",
                          [name |-> "min_stale_key_version"])

\* self.inner.min_stale_key_version()
MinStaleKeyVersionInner ==
    /\ pc = "min_stale_key_version_inner"
    /\ ReadReturns("min_stale_key_version", None, StoreMinStaleKeyVersion(inner))

\* stale_keys: the store is read when the chain is built, the mirror is
\* scanned when the chain is collected.
StaleKeys(version) ==
    /\ pc = "idle"
    /\ mode = "Parallel"
    /\ IF version # updated_version
       THEN ReadReturns("stale_keys", version, StoreStaleKeys(inner, version))
       ELSE ReadContinues("stale_keys_collect",
                          [name |-> "stale_keys", version |-> version,
                           inner_keys |-> StoreStaleKeys(inner, version)])

\* collect(): the stale keys of the commands that upgrade, then the store's.
StaleKeysCollect ==
    /\ pc = "stale_keys_collect"
    /\ ReadReturns("stale_keys", op.version,
                   BufferedStaleKeys(Len(commands)) \o op.inner_keys)

\* The caller has taken the result of the call that returned and goes on.
ReadObserved ==
    /\ pc = "returned"
    /\ pc' = "idle"
    /\ rd' = NoRead
    /\ UNCHANGED <<mode, inner, updated_version, capacity, queue, sender_alive, heap,
                   commands, persister, op, seq, calls, persisted, released, prune_calls,
                   store_prunes>>

\* A read of MaybeParallel on Sequential(db): the store answers.
SequentialRead ==
    /\ pc = "idle"
    /\ mode = "Sequential"
    /\ \/ ReadReturns("try_manifest", None, StoreTryManifest(inner))
       \/ \E v \in Versions : ReadReturns("try_root", v, StoreTryRoot(inner, v))
       \/ \E k \in Keys : ReadReturns("try_tree_node", k, StoreTryTreeNode(inner, k))
       \/ \E keys \in KeyLists : ReadReturns("tree_nodes", keys, StoreTreeNodes(inner, keys))
       \/ \E v \in Versions : ReadReturns("stale_keys", v, StoreStaleKeys(inner, v))
       \/ ReadReturns("min_stale_key_version", None, StoreMinStaleKeyVersion(inner))

(***************************************************************************)
(* Specifications.                                                         *)
(***************************************************************************)
Persister == PersisterRecv \/ PersisterApply \/ PersisterRelease \/ PersisterExit

Reads ==
    \/ TryManifest \/ TryManifestInner
    \/ \E v \in Versions : TryRoot(v)
    \/ TryRootInner
    \/ \E k \in Keys : TryTreeNode(k)
    \/ TryTreeNodeInner
    \/ \E keys \in KeyLists : TreeNodes(keys)
    \/ TreeNodesInner
    \/ MinStaleKeyVersion \/ MinStaleKeyVersionInner
    \/ \E v \in Versions : StaleKeys(v)
    \/ StaleKeysCollect
    \/ SequentialRead
    \/ ReadObserved

Control ==
    \/ \E b \in 1..MaxCapacity : Parallelize(UPDATED_VERSION, b)
    \/ ApplyPatchSend \/ ApplyPatchPush
    \/ WaitSync \/ WaitSyncLoop \/ WaitSyncReturn \/ SequentialWaitSync
    \/ \E p \in PrunePatchSets : Prune(p)
    \/ PruneInner
    \/ \E p \in PrunePatchSets : SequentialPrune(p)
    \/ JoinBegin \/ JoinReturn \/ SequentialJoin

\* The producer submits patches that keep to the updated version.
Submit ==
    \/ \E p \in ValidPatches : ApplyPatchBegin(p)
    \/ \E p \in SequentialPatches : SequentialApplyPatch(p)

\* The producer submits any patch apply_patch accepts.
SubmitAnyKeys ==
    \/ \E p \in AcceptedPatches : ApplyPatchBegin(p)
    \/ \E p \in SequentialPatches : SequentialApplyPatch(p)

Next == Persister \/ Reads \/ Control \/ Submit

NextAnyKeys == Persister \/ Reads \/ Control \/ SubmitAnyKeys

\* The steps of a failing persister and of the calls that panic.
Faults ==
    \/ PersisterPanic \/ PersisterUnwound
    \/ \E p \in AnyPatches : ApplyPatchRejected(p)
    \/ ApplyPatchSendFails
    \/ WaitSyncPanics
    \/ JoinPanics
    \/ PanicCaught

\* The reads the producer makes in the runs in which calls may panic.
ReadsOfOne ==
    \/ TryManifest \/ TryManifestInner
    \/ TryRoot(UPDATED_VERSION) \/ TryRootInner
    \/ TryTreeNode(K1) \/ TryTreeNodeInner
    \/ TreeNodes(<<K1>>) \/ TreeNodesInner
    \/ ReadObserved

\* The producer's calls in those runs.
ControlOfFaulty ==
    \/ \E b \in 1..MaxCapacity : Parallelize(UPDATED_VERSION, b)
    \/ \E p \in AnyPatches : ApplyPatchBegin(p)
    \/ ApplyPatchSend \/ ApplyPatchPush
    \/ WaitSync \/ WaitSyncLoop \/ WaitSyncReturn
    \/ \E p \in PrunePatchSets : Prune(p)
    \/ PruneInner
    \/ JoinBegin \/ JoinReturn \/ SequentialJoin

NextFaulty == Persister \/ Faults \/ ReadsOfOne \/ ControlOfFaulty

Spec == Init /\ [][Next]_vars

SpecAnyKeys == Init /\ [][NextAnyKeys]_vars

\* The store's apply_patch may panic and the producer may submit any patch.
SpecFaulty == Init /\ [][NextFaulty]_vars

\* The patches of a producer that parallelizes for either version: those of
\* each version that the adapter of that version accepts.
ModePatches == ValidPatches \cup SequentialPatches \cup {ManifestStalePatch}

\* The producer parallelizes for either version, again on an adapter that is
\* parallel already, and submits what the adapter it has accepts.
NextModes ==
    \/ Persister
    \/ \E v \in Versions : \E b \in 1..MaxCapacity : Parallelize(v, b)
    \/ \E p \in ModePatches : ApplyPatchBegin(p)
    \/ \E p \in SequentialPatches : SequentialApplyPatch(p)
    \/ ApplyPatchSend \/ ApplyPatchPush
    \/ WaitSync \/ WaitSyncLoop \/ WaitSyncReturn \/ SequentialWaitSync
    \/ \E p \in PrunePatchSets : Prune(p)
    \/ PruneInner
    \/ \E p \in PrunePatchSets : SequentialPrune(p)
    \/ JoinBegin \/ JoinReturn \/ SequentialJoin
    \/ ReadObserved

SpecModes == Init /\ [][NextModes]_vars

\* The runs in which calls may panic and the owner may drop the adapter.
NextDrop == NextFaulty \/ DropAdapter

SpecDrop == Init /\ [][NextDrop]_vars

\* The producer submits patches and reads; the persister works through them
\* at its own pace.
NextReads ==
    \/ PersisterRecv \/ PersisterApply \/ PersisterRelease
    \/ Reads
    \/ \E b \in 1..MaxCapacity : Parallelize(UPDATED_VERSION, b)
    \/ Submit
    \/ ApplyPatchSend \/ ApplyPatchPush

SpecReads == Init /\ [][NextReads]_vars

\* The producer's writes, waits and join, without its reads.
NextSync ==
    \/ Persister
    \/ Submit
    \/ \E b \in 1..MaxCapacity : Parallelize(UPDATED_VERSION, b)
    \/ ApplyPatchSend \/ ApplyPatchPush
    \/ WaitSync \/ WaitSyncLoop \/ WaitSyncReturn \/ SequentialWaitSync
    \/ \E p \in PrunePatchSets : Prune(p)
    \/ PruneInner
    \/ JoinBegin \/ JoinReturn \/ SequentialJoin
    \/ ReadObserved

\* The persister thread is scheduled whenever it can take a step and the
\* store's apply_patch returns; the producer, once in wait_sync, goes on with
\* its loop.
SpecFair ==
    /\ Init /\ [][NextSync]_vars
    /\ WF_vars(Persister)
    /\ WF_vars(WaitSyncLoop)
    /\ WF_vars(WaitSyncReturn)

\* The producer's writes, waits and join, and the drop of the adapter.
NextDrain == NextSync \/ DropAdapter

\* The persister thread is scheduled whenever it can take a step and the
\* store's apply_patch returns.
SpecDrain == Init /\ [][NextDrain]_vars /\ WF_vars(Persister)


(***************************************************************************)
(* Properties.                                                             *)
(***************************************************************************)
\* The ids of the commands whose apply_patch has returned.
Submitted ==
    {id \in DOMAIN heap :
        ~(pc \in {"apply_patch_send", "apply_patch_push"} /\ op.id = id)}

\* The positions of the mirror whose command upgrades and holds a node for `key`.
LiveWithNode(key) ==
    {i \in DOMAIN commands :
        Upgradable(commands[i]) /\ heap[commands[i]].patch.nodes[key] # None}

\* The positions of the mirror whose command upgrades and holds a root.
LiveWithRoot ==
    {i \in DOMAIN commands :
        Upgradable(commands[i]) /\ heap[commands[i]].patch.root # None}

Newest(positions) == CHOOSE i \in positions : \A j \in positions : j <= i

\* What the read that returned gets from a store to which every submitted
\* patch was applied in submission order.
SequentialAnswer ==
    CASE rd.name = "try_manifest" -> StoreTryManifest(seq)
      [] rd.name = "try_root" -> StoreTryRoot(seq, rd.arg)
      [] rd.name = "try_tree_node" -> StoreTryTreeNode(seq, rd.arg)
      [] rd.name = "tree_nodes" -> StoreTreeNodes(seq, rd.arg)
      [] rd.name = "stale_keys" -> StoreStaleKeys(seq, rd.arg)
      [] rd.name = "min_stale_key_version" -> StoreMinStaleKeyVersion(seq)

\* C1 (read-your-writes): whenever try_root, try_tree_node or tree_nodes
\* returns, under any interleaving of the persister's steps, its result is the
\* one the same read has on a store to which all submitted patches were applied
\* in order; so it is the same before and after wait_sync.
ReadYourWrites ==
    rd.name \in {"try_root", "try_tree_node", "tree_nodes"} => rd.res = SequentialAnswer

\* A tree_nodes call is answered while the store is still behind the answer.
ReadYourWritesWitness ==
    /\ mode = "Parallel"
    /\ rd.name = "tree_nodes"
    /\ \E i \in DOMAIN rd.res : rd.res[i] # None
    /\ rd.res # StoreTreeNodes(inner, rd.arg)

FifoPersistence ==
    /\ \A i \in DOMAIN persisted : persisted[i] = i
    /\ \A i \in DOMAIN released : released[i] = i
    /\ \A i, j \in DOMAIN commands :
          i < j /\ Upgradable(commands[i]) => Upgradable(commands[j])

\* Two commands are persisted and the mirror holds a dead entry before a live one.
FifoPersistenceWitness ==
    /\ Len(persisted) >= 2
    /\ \E i, j \in DOMAIN commands :
          i < j /\ ~Upgradable(commands[i]) /\ Upgradable(commands[j])

\* C4 (newest wins): a read of a key of the updated version that some buffered
\* command holds returns the node of the newest such command, in try_tree_node
\* and in every slot of tree_nodes; try_root of the updated version returns the
\* root of the newest buffered command that has one.
NewestWins ==
    /\ rd.name = "try_tree_node" /\ rd.arg.version = updated_version
         /\ LiveWithNode(rd.arg) # {}
       => rd.res = heap[commands[Newest(LiveWithNode(rd.arg))]].patch.nodes[rd.arg]
    /\ rd.name = "tree_nodes"
       => \A i \in DOMAIN rd.arg :
             rd.arg[i].version = updated_version /\ LiveWithNode(rd.arg[i]) # {}
             => rd.res[i] =
                  heap[commands[Newest(LiveWithNode(rd.arg[i]))]].patch.nodes[rd.arg[i]]
    /\ rd.name = "try_root" /\ rd.arg = updated_version /\ LiveWithRoot # {}
       => rd.res = heap[commands[Newest(LiveWithRoot)]].patch.root

\* try_tree_node returns while two buffered commands hold different nodes for
\* its key and a newer command without a root is buffered behind one with a root.
NewestWinsWitness ==
    /\ rd.name = "try_tree_node"
    /\ \E i, j \in LiveWithNode(rd.arg) :
          /\ i < j
          /\ heap[commands[i]].patch.nodes[rd.arg] # heap[commands[j]].patch.nodes[rd.arg]
          /\ rd.res = heap[commands[j]].patch.nodes[rd.arg]

\* C5 (positional alignment): tree_nodes returns one slot per key, slot i
\* holding the answer for keys[i] whether the buffer or the store gave it, and
\* the request it sends to the store names exactly the keys of the slots the
\* buffer left empty, in order.
PositionalAlignment ==
    /\ rd.name = "tree_nodes"
       => /\ Len(rd.res) = Len(rd.arg)
          /\ \A i \in DOMAIN rd.arg : rd.res[i] = StoreTryTreeNode(seq, rd.arg[i])
    /\ pc = "tree_nodes_inner"
       => /\ Len(op.nodes) = Len(op.keys)
          /\ \A i \in DOMAIN op.keys :
                op.nodes[i] = None
                <=> \E j \in DOMAIN KeyIndexes(op.nodes, 1) :
                       /\ KeyIndexes(op.nodes, 1)[j] = i
                       /\ MissingKeys(op.keys, KeyIndexes(op.nodes, 1))[j] = op.keys[i]
          /\ Len(KeyIndexes(op.nodes, 1))
               = Cardinality({i \in DOMAIN op.nodes : op.nodes[i] = None})

\* tree_nodes returns two different nodes: the first from a buffered command
\* the store has not applied, the second from the store.
PositionalAlignmentWitness ==
    /\ mode = "Parallel"
    /\ rd.name = "tree_nodes"
    /\ Len(rd.arg) = 2
    /\ rd.res[1] # None /\ rd.res[2] # None /\ rd.res[1] # rd.res[2]
    /\ LiveWithNode(rd.arg[1]) # {} /\ StoreTryTreeNode(inner, rd.arg[1]) # rd.res[1]
    /\ LiveWithNode(rd.arg[2]) = {}

\* C6 (latest manifest): try_manifest returns the manifest of the most recently
\* submitted patch, or the store's when nothing was submitted: the tail
\* command's manifest when that command upgrades.
LatestManifestReturned ==
    rd.name = "try_manifest"
    => /\ rd.res = StoreTryManifest(seq)
       /\ commands # <<>> /\ Upgradable(commands[Len(commands)])
          => rd.res = heap[commands[Len(commands)]].manifest

\* try_manifest answers from a manifest-only command the store has not applied.
LatestManifestWitness ==
    /\ mode = "Parallel"
    /\ rd.name = "try_manifest"
    /\ commands # <<>> /\ Upgradable(commands[Len(commands)])
    /\ heap[commands[Len(commands)]].patch = EmptyPartialPatchSet
    /\ rd.res # StoreTryManifest(inner)

\* C7 (version isolation of single-version reads): try_root, try_tree_node and
\* stale_keys for another version than the updated one return the store's
\* answer, its error included, whatever the buffer holds; try_root of the
\* updated version returns the newest buffered root, or the store's answer when
\* no buffered command has a root.
VersionIsolation ==
    /\ rd.name = "try_root" /\ rd.arg # updated_version
       => rd.res = StoreTryRoot(inner, rd.arg)
    /\ rd.name = "stale_keys" /\ rd.arg # updated_version
       => rd.res = StoreStaleKeys(inner, rd.arg)
    /\ rd.name = "try_tree_node" /\ rd.arg.version # updated_version
       => rd.res = StoreTryTreeNode(inner, rd.arg)
    /\ rd.name = "try_root" /\ rd.arg = updated_version
       => rd.res = IF LiveWithRoot # {}
                   THEN heap[commands[Newest(LiveWithRoot)]].patch.root
                   ELSE StoreTryRoot(inner, rd.arg)

\* try_tree_node of a key of the old version returns the store's node while a
\* buffered command holds another node for that key.
VersionIsolationWitness ==
    /\ rd.name = "try_tree_node"
    /\ rd.arg.version # updated_version
    /\ LiveWithNode(rd.arg) # {}
    /\ rd.res # heap[commands[Newest(LiveWithNode(rd.arg))]].patch.nodes[rd.arg]

\* C8 (version isolation of tree_nodes): every slot of tree_nodes whose key has
\* another version than the updated one holds the store's answer, even when a
\* buffered command's node map holds that key.
TreeNodesVersionIsolation ==
    rd.name = "tree_nodes" /\ mode = "Parallel"
    => \A i \in DOMAIN rd.arg :
          rd.arg[i].version # updated_version
          => rd.res[i] = StoreTryTreeNode(inner, rd.arg[i])

ModeEquivalence ==
    /\ rd.name \in {"try_manifest", "try_root", "try_tree_node", "tree_nodes"}
       => rd.res = SequentialAnswer
    /\ mode = "Joined" => inner = seq

\* join returns after the persister has drained two commands.
ModeEquivalenceWitness ==
    /\ mode = "Joined"
    /\ Len(persisted) >= 2
    /\ persister.state = "exited"


\* The patches the validation of apply_patch must refuse.
MustBeRefused(patch) ==
    \/ patch.updated_version # <<>> /\ patch.updated_version[1] # updated_version
    \/ patch.updated_version # <<>> /\ DOMAIN patch.patches_by_version # {updated_version}
    \/ patch.updated_version = <<>> /\ DOMAIN patch.patches_by_version # {}
    \/ DOMAIN patch.stale_keys_by_version \ {updated_version} # {}

\* The command an accepted patch is buffered as.
BufferedAs(patch) ==
    [manifest |-> patch.manifest,
     patch |-> IF patch.updated_version = <<>>
               THEN EmptyPartialPatchSet
               ELSE patch.patches_by_version[patch.updated_version[1]],
     stale_keys |-> IF DOMAIN patch.stale_keys_by_version = {}
                    THEN <<>>
                    ELSE patch.stale_keys_by_version[updated_version]]

\* A step that begins a call of apply_patch on the parallel adapter, and the
\* patch of that call.
ApplyPatchCalled ==
    /\ pc = "idle" /\ mode = "Parallel"
    /\ \/ pc' = "apply_patch_send"
       \/ pc' = "panicked" /\ rd'.arg.call = "apply_patch"

CalledPatch == IF pc' = "apply_patch_send" THEN op'.patch ELSE rd'.arg.patch

\* C11 (apply_patch validation): a call of apply_patch panics, sends nothing
\* into the channel, creates no command and appends nothing to the weak mirror
\* when its patch names another version than the adapter's, has a
\* patches_by_version that is not the single entry of updated_version, has no
\* updated_version but a partial patch, or has stale keys of another version;
\* every other patch passes the validation and is buffered with its manifest,
\* its partial patch (the empty one for a manifest update) and its stale keys.
ApplyPatchValidation ==
    [][ApplyPatchCalled
       => IF MustBeRefused(CalledPatch)
          THEN /\ pc' = "panicked"
               /\ queue' = queue
               /\ heap' = heap
               /\ Len(commands') <= Len(commands)
               /\ Range(commands') \subseteq Range(commands)
          ELSE /\ pc' = "apply_patch_send"
               /\ heap' = Append(heap, BufferedAs(CalledPatch))]_vars

\* apply_patch has panicked on a patch with stale keys of two versions while
\* commands are buffered, and a manifest update with stale keys is buffered.
ApplyPatchValidationWitness ==
    /\ rd.name = "panic" /\ rd.arg.call = "apply_patch"
    /\ DOMAIN rd.arg.patch.stale_keys_by_version = Versions
    /\ persister.state \in {"recv", "apply", "release"}
    /\ queue # <<>>
    /\ \E i \in DOMAIN commands :
          /\ Upgradable(commands[i])
          /\ heap[commands[i]].patch = EmptyPartialPatchSet
          /\ heap[commands[i]].stale_keys # <<>>


\* The ids of the commands that have been sent into the channel.
Sent == {id \in DOMAIN heap : ~(pc = "apply_patch_send" /\ op.id = id)}

\* C12 (backpressure): the channel never holds more than buffer_capacity
\* commands; the send of apply_patch is blocked exactly when it holds
\* buffer_capacity of them, whatever the persister and the store are doing, and
\* after the send the call returns without waiting; so when a command has been
\* sent, the persister has taken from the channel every command sent
\* buffer_capacity or more calls before it (with a capacity of 1: the second
\* call does not return before the first command was received).
Backpressure ==
    /\ Len(queue) <= capacity
    /\ pc = "apply_patch_send" => (ENABLED ApplyPatchSend <=> Len(queue) < capacity)
    /\ pc = "apply_patch_push" => ENABLED ApplyPatchPush
    /\ \A id \in Sent :
          id > capacity
          => /\ (id - capacity) \notin Range(queue)
             /\ persister.arc = id - capacity \/ (id - capacity) \in Range(released)
                \/ persister.arc > id - capacity

\* With a capacity of 1 the second call is blocked on the full channel while
\* the store has applied nothing.
BackpressureWitness ==
    /\ capacity = 1
    /\ pc = "apply_patch_send" /\ op.id = 2
    /\ queue = <<1>>
    /\ persisted = <<>>
    /\ ~ENABLED ApplyPatchSend


\* The persister thread has terminated abnormally.
PersisterFaulted == persister.state = "panicked"

\* C13 (a persister fault surfaces on writes): once the persister thread has
\* terminated with a panic, no send succeeds, so no apply_patch called from
\* then on returns; join does not return a store, and a wait_sync or prune
\* that has not left its wait does not return nor call the store's prune; the
\* send and the join that are reached panic; and the persister stays
\* terminated, so every later call fails too.
FaultSurfaces ==
    /\ [](PersisterFaulted
           => /\ pc = "apply_patch_send" => ENABLED ApplyPatchSendFails /\ ~ENABLED ApplyPatchSend
              /\ pc = "join" => ENABLED JoinPanics /\ ~ENABLED JoinReturn
              /\ pc = "wait_sync" => ~ENABLED WaitSyncReturn)
    /\ [][PersisterFaulted /\ pc \notin {"apply_patch_push", "prune_inner"}
          => /\ PersisterFaulted'
             /\ pc' \notin {"apply_patch_push", "prune_inner"}
             /\ mode' # "Joined"
             /\ rd'.name \notin {"wait_sync", "prune"}
             /\ pc = "apply_patch_send" => pc' = "panicked" /\ rd'.arg.call = "apply_patch"
             /\ pc = "join" => pc' = "done" /\ rd'.arg.call = "join"]_vars

\* After the persister has panicked, an apply_patch on an accepted patch has
\* panicked, and so has a later call.
FaultSurfacesWitness ==
    /\ PersisterFaulted
    /\ rd.name = "panic" /\ rd.arg.call \in {"apply_patch", "join"}
    /\ rd.arg.call = "apply_patch" => PatchAccepted(rd.arg.patch)
    /\ calls >= 2
    /\ \E i \in DOMAIN commands : ~Upgradable(commands[i]) /\ commands[i] \notin Range(persisted)


\* The submitted commands the persister has let go without applying them.
Lost == {id \in Submitted : ~Upgradable(id) /\ id \notin Range(persisted)}

\* C14 (fault detection of wait_sync): wait_sync does not return, and prune
\* does not go on to the store's prune nor return, when a failing persister has
\* released a submitted command that the store has not applied.
WaitSyncDetectsFault ==
    (rd.name \in {"wait_sync", "prune"} \/ pc = "prune_inner") => Lost = {}


\* C15 (no silent data loss): once the persister has terminated with a panic, a try_manifest,
\* try_root, try_tree_node or tree_nodes that returns does not omit the effect
\* of a command whose apply_patch has returned: its result is the one of the
\* store to which every submitted patch was applied.
NoSilentLoss ==
    /\ PersisterFaulted
    /\ rd.name \in {"try_manifest", "try_root", "try_tree_node", "tree_nodes"}
    => rd.res = SequentialAnswer


\* C16 (join drains): join drops the sender and the weak mirror before it
\* waits for the persister; when join of the parallel adapter has returned, the
\* persister has exited, the channel is empty, the store has applied every
\* command whose apply_patch returned, once each and in the order of
\* submission, and the store returned is the adapter's inner store as the
\* persister left it; join of MaybeParallel::Sequential returns the store
\* unchanged.
JoinDrains ==
    /\ [](pc = "join" => ~sender_alive /\ commands = <<>>)
    /\ [](mode = "Joined" /\ persister.state # "none"
           => /\ persister.state = "exited"
              /\ queue = <<>>
              /\ persisted = [i \in 1..Len(heap) |-> i]
              /\ released = persisted
              /\ inner = seq)
    /\ [][mode # "Joined" /\ mode' = "Joined"
          => /\ inner' = inner
             /\ mode = "Sequential" => persister.state = "none" /\ UNCHANGED persister]_vars

\* join has returned after the persister drained two commands, in a run in
\* which an apply_patch had panicked.
JoinDrainsWitness ==
    /\ mode = "Joined"
    /\ Len(persisted) = 2
    /\ calls > Len(heap)


\* C17 (wait_sync terminates): with a persister that is scheduled fairly and
\* a store whose apply_patch returns, a wait_sync that has begun ends; when it
\* has returned the weak mirror and the channel are empty and the store has
\* applied every submitted command; MaybeParallel::Sequential never waits.
WaitSyncTerminates ==
    /\ (pc = "wait_sync") ~> (pc # "wait_sync")
    /\ [](rd.name = "wait_sync"
           => /\ commands = <<>>
              /\ queue = <<>>
              /\ persister.arc = 0
              /\ Submitted \subseteq Range(persisted))
    /\ [](mode = "Sequential" => pc # "wait_sync" /\ commands = <<>>)

\* wait_sync has returned after the store applied three commands.
WaitSyncTerminatesWitness ==
    /\ mode = "Parallel"
    /\ rd.name = "wait_sync"
    /\ Len(persisted) = 3
    /\ capacity = 1


\* A read of the producer reflects command `id`: the mirror holds an entry of
\* it that upgrades, or the store has applied it.
InView(id) ==
    \/ \E i \in DOMAIN commands : commands[i] = id /\ Upgradable(id)
    \/ id \in Range(persisted)

\* C18 (read monotonicity): while the adapter serves reads, no step, of the
\* persister (receive, store apply, release) or of the producer, takes a
\* submitted command out of what reads reflect: if command i is reflected
\* before the step, command i and every command submitted before it are
\* reflected after it; and every read that returns gives the answer of the
\* store with all submitted commands applied.
ReadMonotonicity ==
    /\ [][mode' = "Parallel" /\ pc' # "join"
          => \A i \in Submitted : InView(i) => \A j \in 1..i : InView(j)']_vars
    /\ [](mode = "Parallel"
             /\ rd.name \in {"try_manifest", "try_root", "try_tree_node", "tree_nodes"}
           => (\A i \in Submitted : InView(i)) /\ rd.res = SequentialAnswer)

\* try_tree_node returns a node from the store, whose command the persister
\* has released, while a later command is still buffered.
ReadMonotonicityWitness ==
    /\ rd.name = "try_tree_node"
    /\ rd.arg.version = updated_version
    /\ rd.res # None
    /\ LiveWithNode(rd.arg) = {}
    /\ Len(released) >= 1
    /\ \E i \in DOMAIN commands : Upgradable(commands[i]) /\ commands[i] \notin Range(persisted)


\* Command `id` is visible: its weak reference upgrades or the store has
\* applied it.
Visible(id) == Upgradable(id) \/ id \in Range(persisted)

\* C19 (prefix-closed visibility): in every reachable state, when a submitted
\* command is not visible, no command submitted after it is visible.
PrefixClosedVisibility ==
    \A k, j \in Submitted : k < j /\ ~Visible(k) => ~Visible(j)


\* C20 (min_stale_key_version): the call returns Some(updated_version) when a
\* buffered command that upgrades carries stale keys and the store's answer
\* otherwise; buffered commands without stale keys do not make it report the
\* updated version.
MinStaleKeyVersionReported ==
    rd.name = "min_stale_key_version" /\ mode = "Parallel"
    => rd.res = IF \E i \in DOMAIN commands :
                      Upgradable(commands[i]) /\ heap[commands[i]].stale_keys # <<>>
                THEN <<updated_version>>
                ELSE StoreMinStaleKeyVersion(inner)


\* The number of times `key` occurs in the list `keys`.
Count(keys, key) == Cardinality({i \in DOMAIN keys : keys[i] = key})

\* C21 (stale_keys completeness): a stale_keys of the updated version returns,
\* under every interleaving of the persister with the call, the stale keys of
\* every submitted command once each: the multiset of keys the store returns
\* once every submitted command has been applied.
StaleKeysComplete ==
    rd.name = "stale_keys" /\ rd.arg = updated_version /\ mode = "Parallel"
    => \A k \in Keys : Count(rd.res, k) = Count(StoreStaleKeys(seq, rd.arg), k)


\* A step of the persister thread: run_persistence moves on.
PersisterStep == persister.state # "none" /\ persister' # persister

\* The step calls the store's apply_patch from the persister's loop.
StoreApplyPatchCalled == persisted' # persisted

\* The step calls the store's prune.
StorePruneCalled == Len(store_prunes') > Len(store_prunes)

\* C22 as stated (single writer): while the adapter is parallel, every call of
\* the store's apply_patch and prune and every change of the store is made by
\* a step of the persister thread.
SingleWriter ==
    [][mode = "Parallel"
         /\ (inner' # inner \/ StoreApplyPatchCalled \/ StorePruneCalled)
       => PersisterStep]_vars

\* C22 (writers of the store): while the adapter is parallel, the store's
\* apply_patch is called by the persister thread alone, with the patch
\* reconstituted from the command it holds; the store's prune is called by the
\* producer alone, on its own store handle, from prune after its wait_sync;
\* the persister never prunes, and the store changes in no other step.
StoreWriters ==
    [][mode = "Parallel"
       => /\ StoreApplyPatchCalled
             => /\ PersisterStep /\ persister.state = "apply"
                /\ inner' = StoreApplyPatch(inner, ReconstitutedPatchSet(persister.command))
                /\ ~StorePruneCalled
          /\ StorePruneCalled
             => /\ ~PersisterStep /\ pc = "prune_inner"
                /\ inner' = StorePrune(inner, op.patch)
          /\ inner' # inner => StoreApplyPatchCalled \/ StorePruneCalled]_vars

\* prune has returned on the parallel adapter: the persister had applied a
\* patch with stale keys and the producer's prune has removed them.
StoreWritersWitness ==
    /\ mode = "Parallel"
    /\ rd.name = "prune"
    /\ inner.roots[UPDATED_VERSION] = "r2"
    /\ inner.stale[UPDATED_VERSION] = <<>>
    /\ store_prunes # <<>>


\* The reads of the adapter and the positions of a read between its scan of
\* the mirror and its call of the store.
ReadNames ==
    {"try_manifest", "try_root", "try_tree_node", "tree_nodes", "stale_keys",
     "min_stale_key_version"}

ReadPositions ==
    {"try_manifest_inner", "try_root_inner", "try_tree_node_inner", "tree_nodes_inner",
     "stale_keys_collect", "min_stale_key_version_inner"}

\* A step of a read of the parallel adapter.
ReadStep ==
    /\ mode = "Parallel"
    /\ pc' # pc
    /\ \/ pc \in ReadPositions
       \/ pc' \in ReadPositions
       \/ pc = "idle" /\ pc' = "returned" /\ rd'.name \in ReadNames

\* C23 (reads are pure and do not block): no step of try_manifest, try_root,
\* try_tree_node, tree_nodes, stale_keys or min_stale_key_version changes the
\* weak mirror, the channel, the commands, the persister or the store; each of
\* them can begin whenever the producer is idle and can go on once begun,
\* whatever the channel holds and wherever the persister is.
ReadsArePure ==
    /\ [][ReadStep
          => UNCHANGED <<commands, queue, heap, persister, inner, sender_alive, mode,
                         persisted, released, store_prunes>>]_vars
    /\ [](mode = "Parallel" /\ pc = "idle"
           => /\ ENABLED TryManifest
              /\ \A v \in Versions : ENABLED TryRoot(v) /\ ENABLED StaleKeys(v)
              /\ \A k \in Keys : ENABLED TryTreeNode(k)
              /\ \A keys \in KeyLists : ENABLED TreeNodes(keys)
              /\ ENABLED MinStaleKeyVersion)
    /\ [](/\ pc = "try_manifest_inner" => ENABLED TryManifestInner
          /\ pc = "try_root_inner" => ENABLED TryRootInner
          /\ pc = "try_tree_node_inner" => ENABLED TryTreeNodeInner
          /\ pc = "tree_nodes_inner" => ENABLED TreeNodesInner
          /\ pc = "stale_keys_collect" => ENABLED StaleKeysCollect
          /\ pc = "min_stale_key_version_inner" => ENABLED MinStaleKeyVersionInner)

\* stale_keys has returned while the channel is full, the persister is in the
\* store's apply_patch and the mirror holds an entry that no longer upgrades.
ReadsArePureWitness ==
    /\ mode = "Parallel"
    /\ rd.name = "stale_keys"
    /\ Len(queue) = capacity
    /\ persister.state = "apply"
    /\ \E i \in DOMAIN commands : ~Upgradable(commands[i])


\* C24 (mode transitions): parallelize(V, B) on Sequential makes the value
\* Parallel over the same store, with updated_version V, capacity B, an empty
\* channel and mirror and a fresh persister; on a value that is Parallel it
\* changes nothing: version, capacity, buffered commands and persister stay;
\* Parallel is left only by join, which hands back the store, and never goes
\* back to Sequential.
ModeTransitions ==
    /\ [][\A v \in Versions : \A b \in 1..MaxCapacity :
            Parallelize(v, b)
            => IF mode = "Sequential"
               THEN /\ mode' = "Parallel"
                    /\ updated_version' = v /\ capacity' = b
                    /\ inner' = inner
                    /\ queue' = <<>> /\ commands' = <<>> /\ sender_alive'
                    /\ persister' = IdlePersister
               ELSE UNCHANGED <<mode, inner, updated_version, capacity, queue,
                                sender_alive, heap, commands, persister, persisted,
                                released>>]_vars
    /\ [][/\ mode = "Parallel" => mode' \in {"Parallel", "Joined"}
          /\ mode = "Parallel" /\ mode' = "Parallel"
             => /\ updated_version' = updated_version
                /\ capacity' = capacity
                /\ persister'.state # "none"
                /\ persister' = IdlePersister => persister.state \in {"recv", "release"}
          /\ mode = "Parallel" /\ mode' = "Joined" => pc = "join" /\ inner' = inner
          /\ mode' = "Sequential" => mode = "Sequential"
          /\ mode = "Joined" => mode' = "Joined"]_vars

\* An adapter parallelized for the old version with capacity 2, over a store a
\* sequential patch had written, has buffered two commands and has been joined.
ModeTransitionsWitness ==
    /\ mode = "Joined"
    /\ updated_version = OldVersion
    /\ capacity = 2
    /\ persister.state = "exited"
    /\ Len(persisted) = 2
    /\ calls = 3


\* C25 (mirror garbage collection): every call of apply_patch whose patch
\* passes the assertions, with an updated version or manifest-only, drops from
\* the weak mirror the entries whose strong count is zero when the call
\* begins, and then appends the new entry alone; so the mirror of a returned
\* call holds no entry that was dead when the call began.
MirrorCollected ==
    [][/\ pc = "idle" /\ pc' = "apply_patch_send"
          => \A i \in DOMAIN commands :
                ~Upgradable(commands[i]) => commands[i] \notin Range(commands')
       /\ pc = "apply_patch_push" /\ pc' = "idle"
          => commands' = Append(commands, op.id)]_vars


\* The adapter is alive: it has been built and has been neither joined nor
\* dropped.
AdapterAlive == mode = "Parallel" /\ pc # "join"

\* C26 (the persister outlives the adapter's use): the persister thread ends
\* its loop only once the sender is gone, so it has not exited while the
\* adapter is alive; whenever the send of apply_patch fails or wait_sync finds
\* the thread finished, the thread has panicked, so the join of the handle
\* gives the panic back and the unreachable!() after it is not reached.
PersisterOutlivesAdapter ==
    /\ [](AdapterAlive => persister.state # "exited")
    /\ [](persister.state = "exited" => ~sender_alive /\ queue = <<>>)
    /\ [](pc = "apply_patch_send" /\ ENABLED ApplyPatchSendFails => PersisterFaulted)
    /\ [](pc = "wait_sync" /\ ENABLED WaitSyncPanics => PersisterFaulted)
    /\ [][persister.state # "exited" /\ persister'.state = "exited"
          => ~sender_alive /\ ~AdapterAlive]_vars

\* The send of an apply_patch has failed on an adapter that is alive and whose
\* persister has panicked, in a run in which an apply_patch had returned.
PersisterOutlivesAdapterWitness ==
    /\ AdapterAlive
    /\ sender_alive
    /\ PersisterFaulted
    /\ rd.name = "panic" /\ rd.arg.call = "apply_patch"
    /\ PatchAccepted(rd.arg.patch)
    /\ commands # <<>>


\* The command sender has been dropped, by join or with the adapter.
SenderDropped == persister.state # "none" /\ ~sender_alive

\* C27 (persister termination): once the sender has been dropped, by join or
\* by the drop of the adapter, a persister that is scheduled and whose store
\* returns from apply_patch applies every command left in the channel and
\* then exits normally; it does not exit while a command of the channel is
\* unapplied: when it has exited the channel is empty and the store has
\* applied every command ever sent, in order.
PersisterTerminates ==
    /\ SenderDropped ~> (persister.state = "exited")
    /\ [](persister.state = "exited"
           => /\ queue = <<>>
              /\ persisted = [i \in 1..Len(heap) |-> i]
              /\ released = persisted)
    /\ [][persister.state # "exited" /\ persister'.state = "exited"
          => SenderDropped /\ queue = <<>> /\ persister.arc = 0]_vars

\* The adapter was dropped and the persister has exited after the store
\* applied three commands through a channel of capacity 2.
PersisterTerminatesWitness ==
    /\ mode = "Dropped"
    /\ persister.state = "exited"
    /\ capacity = 2
    /\ persisted = <<1, 2, 3>>
    /\ inner = seq


\* The commands whose apply_patch has returned and that the store has not
\* applied, and the entries of the weak mirror that upgrade.
Unapplied == {id \in Submitted : id \notin Range(persisted)}

LiveEntries == {i \in DOMAIN commands : Upgradable(commands[i])}

\* C28 (bounded in-flight work): in every reachable state the channel holds at
\* most buffer_capacity commands, at most buffer_capacity + 1 commands whose
\* apply_patch has returned are not yet applied by the store (those of the
\* channel and the one in the persister's hands), and at most
\* buffer_capacity + 1 entries of the weak mirror upgrade.
BoundedInFlight ==
    /\ Len(queue) <= capacity
    /\ Cardinality(Unapplied) <= capacity + 1
    /\ Unapplied \subseteq Range(queue) \cup {persister.arc}
    /\ Cardinality(LiveEntries) <= capacity + 1

\* With a capacity of 1 two returned commands are unapplied, both entries of
\* the mirror upgrade, and a third apply_patch is blocked in its send.
BoundedInFlightWitness ==
    /\ capacity = 1
    /\ Cardinality(Unapplied) = 2
    /\ Cardinality(LiveEntries) = 2
    /\ pc = "apply_patch_send"
    /\ ~ENABLED ApplyPatchSend


\* A call of the store's apply_patch by the persister is in progress, and a
\* call of the store's prune by the producer is in progress.
StoreApplyPatchInProgress == persister.state = "apply"

StorePruneInProgress == pc = "prune_inner"

\* C29 (no overlapping store mutations): while the producer is in the store's
\* prune the channel is empty, the persister holds no command and is not in
\* the store's apply_patch, and it receives nothing until the prune has
\* returned; so the store's prune and the store's apply_patch are never in
\* progress together, also in runs in which the persister panics.
NoOverlappingMutations ==
    /\ [](StorePruneInProgress
           => /\ queue = <<>>
              /\ persister.arc = 0
              /\ persister.state \notin {"apply", "release"}
              /\ ~StoreApplyPatchInProgress
              /\ ~ENABLED PersisterRecv)
    /\ [][StorePruneCalled
          => /\ StorePruneInProgress
             /\ ~StoreApplyPatchInProgress /\ ~StoreApplyPatchInProgress'
             /\ persisted' = persisted]_vars

\* The producer is in the store's prune after the persister has applied two
\* commands through a channel of capacity 1.
NoOverlappingMutationsWitness ==
    /\ StorePruneInProgress
    /\ capacity = 1
    /\ persister.state = "recv"
    /\ Len(persisted) = 2
    /\ Len(released) = 2


\* The PatchSet the store is to receive for the submitted `patch`.
RoundTrip(patch) ==
    [manifest |-> patch.manifest,
     updated_version |-> <<updated_version>>,
     patches_by_version |->
        [v \in {updated_version} |->
            IF patch.updated_version = <<>>
            THEN EmptyPartialPatchSet
            ELSE patch.patches_by_version[v]],
     stale_keys_by_version |->
        [v \in {updated_version} |->
            IF v \in DOMAIN patch.stale_keys_by_version
            THEN patch.stale_keys_by_version[v]
            ELSE <<>>]]

\* C30 (patch round-trip): the command apply_patch creates for an accepted
\* patch reconstitutes to the PatchSet with the submitted manifest,
\* updated_version = Some(V), the submitted partial patch (the empty one for a
\* manifest update) under V and the submitted stale keys (the empty list when
\* there are none) under V; a command does not change while the channel or the
\* persister holds it; the persister reconstitutes the command it received and
\* the store applies exactly that PatchSet.
PatchRoundTrip ==
    /\ [](pc \in {"apply_patch_send", "apply_patch_push"} /\ Upgradable(op.id)
           => ReconstitutedPatchSet(heap[op.id]) = RoundTrip(op.patch))
    /\ [](persister.state = "apply"
           => /\ persister.command = heap[persister.arc]
              /\ pc = "apply_patch_push" /\ op.id = persister.arc
                 => ReconstitutedPatchSet(persister.command) = RoundTrip(op.patch))
    /\ [][\A id \in DOMAIN heap :
             id \in Range(queue') \/ persister'.arc = id => heap'[id] = heap[id]]_vars
    /\ [][persisted' # persisted
          => /\ persisted' = Append(persisted, persister.arc)
             /\ inner' = StoreApplyPatch(inner, ReconstitutedPatchSet(heap[persister.arc]))]_vars

\* The persister is about to hand to the store a manifest update that carries
\* stale keys, whose apply_patch has not returned yet.
PatchRoundTripWitness ==
    /\ pc = "apply_patch_push"
    /\ persister.state = "apply"
    /\ persister.arc = op.id
    /\ op.patch.updated_version = <<>>
    /\ op.patch.stale_keys_by_version # <<>>
    /\ ReconstitutedPatchSet(persister.command).patches_by_version[updated_version]
         = EmptyPartialPatchSet


=============================================================================
